---- MODULE Spec2Model ----
(***************************************************************************)
(* kratt: earliest-attestation search over a dated corpus.                 *)
(*                                                                         *)
(*   Spec      the query step, src/kratt/cli.py main: load the resolved    *)
(*             dates and the work listing, sort, scan book by book.        *)
(*   SpecScan  the scan-building step, src/kratt/scan_books.py main: load  *)
(*             the biographical export, flush catalog persons into         *)
(*             evidence, write one resolved-date row per listed book.      *)
(*                                                                         *)
(* Representation.  Python str values that are only compared or sorted     *)
(* (work_id, rel_path) are naturals in the same order.  Text that is       *)
(* scanned character by character (lines, terms, labels, raw dates) is a   *)
(* sequence of one-character strings.  An optional int is <<>> (None) or   *)
(* <<v>>.  A CSV year cell is a record [t, v]: t = "int" (text int()       *)
(* accepts, value v), "blank" (empty cell) or "bad" (any other text).      *)
(* Fields of Book / Match that no modelled code reads (title, filename,    *)
(* collection) are left out.                                               *)
(***************************************************************************)
EXTENDS Integers, Sequences, FiniteSets, TLC

\* ------------------------------------------------------------------ bounds
MaxBooks == 3      \* corpus files on disk / rows of books.csv
MaxLimit == 3      \* --limit ranges over 1..MaxLimit

\* -------------------------------------------------------- generic helpers
NoneV == <<>>
Some(v) == <<v>>
IsNone(o) == o = <<>>
Min(a, b) == IF a <= b THEN a ELSE b

RECURSIVE LexLess(_, _)
\* Python's < on tuples of ints (and, through Ord, on str): first differing
\* element decides, a proper prefix is smaller.
LexLess(a, b) ==
    IF b = <<>> THEN FALSE
    ELSE IF a = <<>> THEN TRUE
    ELSE IF Head(a) < Head(b) THEN TRUE
    ELSE IF Head(a) > Head(b) THEN FALSE
    ELSE LexLess(Tail(a), Tail(b))

RECURSIVE InsertByKey(_, _)
\* Insert pair e = <<key, item>> after every pair whose key is <= key(e).
InsertByKey(s, e) ==
    IF s = <<>> THEN <<e>>
    ELSE IF LexLess(e[1], Head(s)[1]) THEN <<e>> \o s
    ELSE <<Head(s)>> \o InsertByKey(Tail(s), e)

RECURSIVE SortPairs(_, _)
SortPairs(todo, done) ==
    IF todo = <<>> THEN done
    ELSE SortPairs(Tail(todo), InsertByKey(done, Head(todo)))

\* list.sort(key=...): stable, ascending; pairs are <<key, item>>.
SortedByKey(pairs) ==
    LET s == SortPairs(pairs, <<>>) IN [i \in 1..Len(s) |-> s[i][2]]

RECURSIVE SeqOfSet(_)
\* some enumeration of a finite set (used only where the order is then
\* fixed by a sort on unique keys)
SeqOfSet(S) ==
    IF S = {} THEN <<>>
    ELSE LET e == CHOOSE x \in S : TRUE IN <<e>> \o SeqOfSet(S \ {e})

Ord(c) ==
    CASE c = " " -> 32 [] c = "(" -> 40 [] c = ")" -> 41 [] c = "-" -> 45
      [] c = "." -> 46 [] c = "0" -> 48 [] c = "1" -> 49 [] c = "2" -> 50
      [] c = "3" -> 51 [] c = "4" -> 52 [] c = "5" -> 53 [] c = "6" -> 54
      [] c = "7" -> 55 [] c = "8" -> 56 [] c = "9" -> 57
      [] c = "a" -> 97 [] c = "b" -> 98 [] c = "c" -> 99 [] c = "d" -> 100
      [] c = "f" -> 102 [] c = "l" -> 108 [] OTHER -> 120

StrKey(s) == [i \in 1..Len(s) |-> Ord(s[i])]

\* ============================================================ cli.py ====
VARIABLES
    disk,          \* corpus files found by the scan-building step
    portion,       \* query-time file system:
                   \*   rel_path -> [exists, readable, lines]
    dateCsv,       \* rows of publication_date_range.csv
    args,          \* parsed command line: [term, s2t, t2s, limit, dedup]
    pc,            \* position of main: "start" | "loop" | "iter" | "done",
                   \*   or "crashed" after an uncaught exception
    books,         \* load_books result
    variants,      \* term_variants result
    bi,            \* index of the book the for loop is at (0 before it)
    gen_remaining, \* iter_matches' local `remaining`
    gen_pos,       \* matches the running iter_matches has yielded
    results        \* main's result list

qvars == <<disk, portion, dateCsv, args, pc, books, variants, bi,
           gen_remaining, gen_pos, results>>

\* state of the scan-building step (scan_books.py main)
VARIABLES
    sbooks,        \* iter_books result: [work_id, dynasty_label, author_label]
    dynastyCsv,    \* --dynasty-ranges: [given, rows]
    catalog,       \* persons the catalog parser hands to flush_person
    export,        \* rows of the mdb-export table ZZZ_BIOG_MAIN
    spc,           \* position of main: "ranges" | "catalog" | "cbdb" |
                   \*   "write" | "done" | "crashed" | "idle"
    ranges,        \* load_dynasty_ranges result
    ci,            \* catalog persons flushed so far
    kr_evidence,   \* work_id -> list of PersonEvidence
    ei,            \* export rows read so far
    cbdb_people,   \* name -> list of CBDBPerson
    out_rows       \* rows written to publication_date_range.csv

svars == <<sbooks, dynastyCsv, catalog, export, spc, ranges, ci, kr_evidence,
           ei, cbdb_people, out_rows>>

\* state of one call of cli.iter_line_matches
VARIABLES
    lm_line,       \* argument `line`
    lm_variants,   \* argument `variants`
    lm_pc,         \* "for" | "while" | "done" | "idle"
    lm_term,       \* index in `variants` of the loop variable `term` (0 before)
    lm_start,      \* local `start`
    lm_matches     \* local `matches`

lvars == <<lm_line, lm_variants, lm_pc, lm_term, lm_start, lm_matches>>

\* state of one call of scan_books._parse_kr_catalog_file
VARIABLES
    kr_lines,          \* the lines of the catalog file
    kr_pos,            \* lines read so far
    kr_pc,             \* "lines" | "done" | "idle"
    current_work_id,   \* 0 stands for None
    in_people_section,
    current_person,    \* <<>> stands for None
    current_props,     \* the DATES and FUNCTION entries of the dict
    evidence_by_work   \* work_id -> list of PersonEvidence

kvars == <<kr_lines, kr_pos, kr_pc, current_work_id, in_people_section,
           current_person, current_props, evidence_by_work>>

\* everything outside the two main programs
xvars == <<lvars, kvars>>

\* no call of iter_line_matches / _parse_kr_catalog_file is being followed
LineIdle ==
    /\ lm_line = <<>>
    /\ lm_variants = <<>>
    /\ lm_pc = "idle"
    /\ lm_term = 0
    /\ lm_start = 0
    /\ lm_matches = <<>>

\* current_props = {}: the properties flush_person reads, each at the
\* default current_props.get(key, "") gives
NoProps == [DATES |-> <<>>, FUNCTION |-> ""]

CatalogIdle ==
    /\ kr_lines = <<>>
    /\ kr_pos = 0
    /\ kr_pc = "idle"
    /\ current_work_id = 0
    /\ in_people_section = FALSE
    /\ current_person = <<>>
    /\ current_props = NoProps
    /\ evidence_by_work = <<>>

UNKNOWN_DATE_KEY == <<1000000000, 1000000000>>

\* ---- scan_books.iter_books: the listing the query step loads
\* parse_filename keeps a file whose name matches BOOK_RE (work_id > 0 here;
\* 0 stands for a non-conforming name); the listing is sorted by
\* (work_id, path).
iter_books(files) ==
    LET kept == SeqOfSet({f \in files : f.work_id # 0})
    IN  SortedByKey([i \in 1..Len(kept) |->
            <<(<<kept[i].work_id, kept[i].path>>),
              [work_id |-> kept[i].work_id, path |-> kept[i].path]>>])

\* ---- load_date_ranges
RECURSIVE load_date_ranges_from(_, _)
load_date_ranges_from(rows, acc) ==
    IF rows = <<>> THEN acc
    ELSE LET row == Head(rows)
             ok  == /\ row.work_id # 0
                    /\ row.date_not_before.t = "int"
                    /\ row.date_not_after.t = "int"
             candidate == <<row.date_not_before.v, row.date_not_after.v>>
             current == IF row.work_id \in DOMAIN acc
                        THEN acc[row.work_id] ELSE <<>>
         IN  IF ok /\ (current = <<>> \/ LexLess(candidate, current))
             THEN load_date_ranges_from(Tail(rows),
                     [w \in DOMAIN acc \cup {row.work_id} |->
                        IF w = row.work_id THEN candidate ELSE acc[w]])
             ELSE load_date_ranges_from(Tail(rows), acc)

load_date_ranges(rows) == load_date_ranges_from(rows, <<>>)

\* ---- book_sort_key
book_sort_key(book) ==
    LET date_key == IF IsNone(book.date_not_before) \/ IsNone(book.date_not_after)
                    THEN UNKNOWN_DATE_KEY
                    ELSE <<book.date_not_before[1], book.date_not_after[1]>>
    IN  date_key \o <<book.work_id, book.rel_path>>

\* ---- load_books
\* rel_path 0 stands for the blank path cell, whose row is skipped.
load_books_rows(listing, date_ranges) ==
    LET rows == SelectSeq(listing, LAMBDA row : row.path # 0)
    IN  [i \in 1..Len(rows) |->
            LET known == rows[i].work_id \in DOMAIN date_ranges
            IN  [work_id |-> rows[i].work_id,
                 rel_path |-> rows[i].path,
                 date_not_before |-> IF known
                     THEN Some(date_ranges[rows[i].work_id][1]) ELSE NoneV,
                 date_not_after |-> IF known
                     THEN Some(date_ranges[rows[i].work_id][2]) ELSE NoneV]]

load_books_unsorted(listing, date_ranges) == load_books_rows(listing, date_ranges)

load_books(listing, date_ranges) ==
    LET bs == load_books_rows(listing, date_ranges)
    IN  SortedByKey([i \in 1..Len(bs) |-> <<book_sort_key(bs[i]), bs[i]>>])

\* ---- term_variants
\* s2t / t2s are the two OpenCC conversions of the term (external).
term_variants(term, s2t, t2s) ==
    LET vs == SeqOfSet({v \in {term, s2t, t2s} : v # <<>>})
    IN  SortedByKey([i \in 1..Len(vs) |-> <<StrKey(vs[i]), vs[i]>>])

\* ---- iter_line_matches
\* str.find(term, start): lowest 0-based index >= start, or -1
find(line, term, start) ==
    LET hits == {i \in start..(Len(line) - Len(term)) :
                    \A k \in 1..Len(term) : line[i + k] = term[k]}
    IN  IF hits = {} THEN -1 ELSE CHOOSE i \in hits : \A j \in hits : i <= j

\* iter_line_matches line 133, with the search restarting one character
\* after the start of the hit
next_start_overlapping(idx, term_len) == idx + (term_len - term_len) + 1

\* iter_line_matches line 133: start = idx + term_len
next_start(idx, term_len) == idx + term_len

RECURSIVE term_hits(_, _, _)
\* the while loop of one term: next search starts at the end of the hit
term_hits(line, term, start) ==
    LET idx == find(line, term, start)
    IN  IF idx = -1 THEN <<>>
        ELSE <<(<<idx, term>>)>> \o term_hits(line, term, next_start(idx, Len(term)))

RECURSIVE line_hits(_, _)
line_hits(line, vs) ==
    IF vs = <<>> THEN <<>>
    ELSE (IF Len(Head(vs)) = 0 THEN <<>> ELSE term_hits(line, Head(vs), 0))
         \o line_hits(line, Tail(vs))

iter_line_matches(line, vs) ==
    LET ms == line_hits(line, vs)
    IN  SortedByKey([i \in 1..Len(ms) |->
            <<(<<ms[i][1]>> \o StrKey(ms[i][2])), ms[i]>>])

\* ---- iter_matches: the matches of one book in the order the generator
\* yields them when it is never cut short
RECURSIVE file_matches(_, _, _, _)
file_matches(book, lines, line_no, vs) ==
    IF line_no > Len(lines) THEN <<>>
    ELSE LET lm == iter_line_matches(lines[line_no], vs)
         IN  [i \in 1..Len(lm) |->
                [book |-> book, line_no |-> line_no, offset |-> lm[i][1],
                 term |-> lm[i][2], line |-> lines[line_no]]]
             \o file_matches(book, lines, line_no + 1, vs)

book_matches(book, fs, vs) ==
    IF ~fs[book.rel_path].exists THEN <<>>
    ELSE file_matches(book, fs[book.rel_path].lines, 1, vs)

\* iter_matches line 145: book.path.open raises OSError (PermissionError,
\* IsADirectoryError) on a path that exists and cannot be opened for
\* reading; nothing in iter_matches or main catches it.
open_raises(book, fs) ==
    fs[book.rel_path].exists /\ ~fs[book.rel_path].readable

\* main line 234
per_book_limit_one_more(dedup, remaining) == IF dedup THEN 1 ELSE remaining + 1

per_book_limit(dedup, remaining) == IF dedup THEN 1 ELSE remaining

\* iter_matches lines 156-159, after `remaining -= 1`
gen_returns(remaining) == remaining <= 0

\* the scan-building step is not running
ScanIdle ==
    /\ sbooks = <<>>
    /\ dynastyCsv = [given |-> FALSE, rows |-> <<>>]
    /\ catalog = <<>>
    /\ export = <<>>
    /\ spc = "idle"
    /\ ranges = <<>>
    /\ ci = 0
    /\ kr_evidence = <<>>
    /\ ei = 0
    /\ cbdb_people = <<>>
    /\ out_rows = <<>>

\* ------------------------------------------------------- inputs (cli.py)
WorkIds == {1, 2, 3}
Y(v) == [t |-> "int", v |-> v]
Blank == [t |-> "blank", v |-> 0]
Bad == [t |-> "bad", v |-> 0]
DateRow(w, nb, na) == [work_id |-> w, date_not_before |-> nb, date_not_after |-> na]

\* Resolved-date tables: as write_publication_date_ranges leaves them (one
\* row per listed book, a blank cell for an absent bound), and one with
\* several rows per work and a cell that is not an integer.
DateTables ==
    { <<DateRow(1, Y(-200), Y(-150)), DateRow(2, Y(100), Y(200)),
        DateRow(3, Blank, Blank)>>,
      <<DateRow(1, Y(1000000001), Y(1000000003)),
        DateRow(1, Y(1000000001), Y(1000000002)),
        DateRow(2, Bad, Y(5)), DateRow(2, Y(100), Blank),
        DateRow(3, Y(1000000001), Y(1000000002))>> }

Missing == [exists |-> FALSE, readable |-> FALSE, lines |-> <<>>]
Unreadable == [exists |-> TRUE, readable |-> FALSE, lines |-> <<>>]
NoHit == [exists |-> TRUE, readable |-> TRUE, lines |-> << <<"c", "c">> >>]
Hits == [exists |-> TRUE, readable |-> TRUE,
         lines |-> << <<"c">>, <<"a", "b", "a">> >>]
Contents == {Missing, Unreadable, NoHit, Hits}

Terms ==
    { [term |-> <<"a">>, s2t |-> <<"a">>, t2s |-> <<"a">>],
      [term |-> <<"b">>, s2t |-> <<"a">>, t2s |-> <<"b">>] }

Paths == 1..MaxBooks

\* The corpus directory: at each path a file named for one of two works, or
\* (at the last path) a file whose name does not match BOOK_RE (work_id 0).  Paths in ascending
\* order carry work ids in mostly descending order, and two paths can carry
\* the same work id.
WorksAt(p) == {3 - ((p - 1) % 3), ((3 - ((p - 1) % 3)) % 3) + 1}

\* ------------------------------------------------------ main of cli.py
QInit ==
    /\ \E ws \in [Paths -> WorkIds \cup {0}] :
          /\ \A p \in Paths :
                ws[p] \in WorksAt(p) \cup (IF p = MaxBooks THEN {0} ELSE {})
          /\ disk = {[path |-> p, work_id |-> ws[p]] : p \in Paths}
    /\ portion \in [Paths -> Contents]
    /\ \A p \in Paths :
          (\A f \in disk : f.path # p \/ f.work_id = 0) => portion[p] = Missing
    /\ dateCsv \in DateTables
    \* a file that is there and refuses to open: the first path only, in
    \* the runs over the table that dates work 1 to [-200,-150]
    /\ \A p \in Paths :
          portion[p] = Unreadable =>
              p = 1 /\ dateCsv[1].date_not_before = Y(-200)
    /\ \E t \in Terms, l \in 1..MaxLimit, d \in BOOLEAN :
          args = [term |-> t.term, s2t |-> t.s2t, t2s |-> t.t2s,
                  limit |-> l, dedup |-> d]
    /\ pc = "start"
    /\ books = <<>>
    /\ variants = <<>>
    /\ bi = 0
    /\ gen_remaining = 0
    /\ gen_pos = 0
    /\ results = <<>>
    /\ ScanIdle
    /\ LineIdle
    /\ CatalogIdle

\* main lines 225-229
Load ==
    /\ pc = "start"
    /\ books' = load_books(iter_books(disk), load_date_ranges(dateCsv))
    /\ variants' = term_variants(args.term, args.s2t, args.t2s)
    /\ results' = <<>>
    /\ pc' = "loop"
    /\ UNCHANGED <<svars, xvars>>
    /\ UNCHANGED <<disk, portion, dateCsv, args, bi, gen_remaining, gen_pos>>

\* main line 230: the for loop runs out of books
LoopEnd ==
    /\ pc = "loop"
    /\ bi = Len(books)
    /\ pc' = "done"
    /\ UNCHANGED <<svars, xvars>>
    /\ UNCHANGED <<disk, portion, dateCsv, args, books, variants, bi,
                   gen_remaining, gen_pos, results>>

\* main lines 231-233: break on an exhausted budget
LoopBreak ==
    /\ pc = "loop"
    /\ bi < Len(books)
    /\ args.limit - Len(results) <= 0
    /\ pc' = "done"
    /\ UNCHANGED <<svars, xvars>>
    /\ UNCHANGED <<disk, portion, dateCsv, args, books, variants, bi,
                   gen_remaining, gen_pos, results>>

\* main lines 231-235: start iter_matches on the next book
OpenBook ==
    /\ pc = "loop"
    /\ bi < Len(books)
    /\ LET remaining == args.limit - Len(results)
       IN  /\ remaining > 0
           /\ gen_remaining' = per_book_limit(args.dedup, remaining)
    /\ bi' = bi + 1
    /\ gen_pos' = 0
    /\ pc' = "iter"
    /\ UNCHANGED <<svars, xvars>>
    /\ UNCHANGED <<disk, portion, dateCsv, args, books, variants, results>>

\* iter_matches lines 149-159 with main line 236: one match is yielded and
\* appended; the generator then counts down and may return
Yield ==
    /\ pc = "iter"
    /\ ~open_raises(books[bi], portion)
    /\ LET ms == book_matches(books[bi], portion, variants)
       IN  /\ gen_pos < Len(ms)
           /\ results' = Append(results, ms[gen_pos + 1])
    /\ gen_remaining' = gen_remaining - 1
    /\ gen_pos' = gen_pos + 1
    /\ pc' = IF gen_returns(gen_remaining') THEN "loop" ELSE "iter"
    /\ UNCHANGED <<svars, xvars>>
    /\ UNCHANGED <<disk, portion, dateCsv, args, books, variants, bi>>

\* iter_matches lines 142-143 (missing file) and the end of the file
Exhausted ==
    /\ pc = "iter"
    /\ ~open_raises(books[bi], portion)
    /\ gen_pos >= Len(book_matches(books[bi], portion, variants))
    /\ pc' = "loop"
    /\ UNCHANGED <<svars, xvars>>
    /\ UNCHANGED <<disk, portion, dateCsv, args, books, variants, bi,
                   gen_remaining, gen_pos, results>>

\* iter_matches line 145: opening the book's file raises; the exception
\* leaves the generator and main, and the run ends with a traceback
OpenFails ==
    /\ pc = "iter"
    /\ open_raises(books[bi], portion)
    /\ pc' = "crashed"
    /\ UNCHANGED <<svars, xvars>>
    /\ UNCHANGED <<disk, portion, dateCsv, args, books, variants, bi,
                   gen_remaining, gen_pos, results>>

QNext ==
    Load \/ LoopEnd \/ LoopBreak \/ OpenBook \/ Yield \/ Exhausted \/ OpenFails

\* ===================================================== scan_books.py ====
\* Labels read character by character are sequences of characters; a CJK
\* character is written by its pinyin ("yi","ming" for 佚名).  Dynasty
\* labels and function strings are only looked up, so each is one string.
DEFAULT_DYNASTY_RANGES ==
    [l \in {"XiZhou", "DongZhou", "Zhou", "ChunQiu", "ZhanGuo", "Qin", "XiHan",
            "Xin", "DongHan", "Han", "SanGuo", "Wei", "Shu", "Wu", "XiJin",
            "DongJin", "Jin", "BeiWei", "DongWei", "XiWei", "BeiQi", "BeiZhou",
            "LiuSong", "NanQi", "Liang", "Chen", "NanBeiChao", "NanChao",
            "BeiChao", "Sui", "Tang", "WuDai", "WuDaiShiGuo", "BeiSong",
            "NanSong", "Song", "Liao", "XiXia", "Jin1", "Yuan", "Ming", "Qing",
            "MinGuo"} |->
        CASE l = "XiZhou" -> <<-1046, -771>> [] l = "DongZhou" -> <<-770, -256>>
          [] l = "Zhou" -> <<-1046, -256>> [] l = "ChunQiu" -> <<-770, -476>>
          [] l = "ZhanGuo" -> <<-475, -221>> [] l = "Qin" -> <<-221, -206>>
          [] l = "XiHan" -> <<-206, 8>> [] l = "Xin" -> <<9, 23>>
          [] l = "DongHan" -> <<25, 220>> [] l = "Han" -> <<-206, 220>>
          [] l = "SanGuo" -> <<220, 280>> [] l = "Wei" -> <<220, 266>>
          [] l = "Shu" -> <<221, 263>> [] l = "Wu" -> <<229, 280>>
          [] l = "XiJin" -> <<266, 316>> [] l = "DongJin" -> <<317, 420>>
          [] l = "Jin" -> <<266, 420>> [] l = "BeiWei" -> <<386, 534>>
          [] l = "DongWei" -> <<534, 550>> [] l = "XiWei" -> <<535, 557>>
          [] l = "BeiQi" -> <<550, 577>> [] l = "BeiZhou" -> <<557, 581>>
          [] l = "LiuSong" -> <<420, 479>> [] l = "NanQi" -> <<479, 502>>
          [] l = "Liang" -> <<502, 557>> [] l = "Chen" -> <<557, 589>>
          [] l = "NanBeiChao" -> <<420, 589>> [] l = "NanChao" -> <<420, 589>>
          [] l = "BeiChao" -> <<386, 581>> [] l = "Sui" -> <<581, 618>>
          [] l = "Tang" -> <<618, 907>> [] l = "WuDai" -> <<907, 960>>
          [] l = "WuDaiShiGuo" -> <<907, 979>> [] l = "BeiSong" -> <<960, 1127>>
          [] l = "NanSong" -> <<1127, 1279>> [] l = "Song" -> <<960, 1279>>
          [] l = "Liao" -> <<907, 1125>> [] l = "XiXia" -> <<1038, 1227>>
          [] l = "Jin1" -> <<1115, 1234>> [] l = "Yuan" -> <<1271, 1368>>
          [] l = "Ming" -> <<1368, 1644>> [] l = "Qing" -> <<1644, 1912>>
          [] OTHER -> <<1912, 1949>>]

DYNASTY_ALIASES ==
    [l \in {"QianHan", "HouHan", "ShuHan", "DongWu", "SunWu", "NanChaoSong",
            "Song(NanChao)"} |->
        CASE l = "QianHan" -> "XiHan" [] l = "HouHan" -> "DongHan"
          [] l = "ShuHan" -> "Shu" [] l = "DongWu" -> "Wu" [] l = "SunWu" -> "Wu"
          [] OTHER -> "LiuSong"]

PREFERRED_FUNCTIONS ==
    {"zhuan", "zhu", "bian", "zuan", "ji", "yi", "zhu4", "zhu4yan", "shu",
     "shu4", "jiao", "jiaoding", "kao", "kaobu", "jie", "zhuan4", "yinyi"}

UNKNOWN_AUTHOR_MARKERS ==
    { <<"yi", "ming">>, <<"que", "ming">>, <<"bu", "xiang">>, <<"wei", "zhi">>,
      <<"shi", "ming">>, <<"bu", "zhu", "zhuan", "ren">>,
      <<"zuo", "zhe", "bu", "xiang">>, <<"bu", "zhi", "zhuan", "ren">> }

\* ---- str helpers
IsSpace(c) == c = " "

RECURSIVE lstrip(_)
lstrip(s) == IF s # <<>> /\ IsSpace(Head(s)) THEN lstrip(Tail(s)) ELSE s

RECURSIVE rstrip(_)
rstrip(s) ==
    IF s # <<>> /\ IsSpace(s[Len(s)]) THEN rstrip(SubSeq(s, 1, Len(s) - 1)) ELSE s

strip(s) == rstrip(lstrip(s))

Contains(s, sub) ==
    \E i \in 0..(Len(s) - Len(sub)) : \A k \in 1..Len(sub) : s[i + k] = sub[k]

startswith(s, pre) ==
    Len(pre) <= Len(s) /\ \A k \in 1..Len(pre) : s[k] = pre[k]

IsOpenParen(c) == c \in {"(", "fw("}
IsCloseParen(c) == c \in {")", "fw)"}

RECURSIVE paren_sub(_)
\* PAREN_RE.sub("", s): from the left, an opening paren, up to the first
\* closing one, is deleted; an opening paren never closed stays
paren_sub(s) ==
    IF s = <<>> THEN <<>>
    ELSE IF IsOpenParen(Head(s))
              /\ \E j \in 2..Len(s) : IsCloseParen(s[j])
         THEN LET j == CHOOSE j \in 2..Len(s) :
                          /\ IsCloseParen(s[j])
                          /\ \A k \in 2..(j - 1) : ~IsCloseParen(s[k])
              IN  paren_sub(SubSeq(s, j + 1, Len(s)))
         ELSE <<Head(s)>> \o paren_sub(Tail(s))

\* ---- normalize_author_name; <<>> stands for None (no usable name)
normalize_author_name(author_label) ==
    LET name == strip(paren_sub(strip(author_label)))
    IN  IF name = <<>> THEN <<>>
        ELSE IF \E marker \in UNKNOWN_AUTHOR_MARKERS : Contains(name, marker)
             THEN <<>>
        ELSE name

\* ---- parse_dates
IsDigit(c) == c \in {"0", "1", "2", "3", "4", "5", "6", "7", "8", "9"}
DigitVal(c) == Ord(c) - 48
lower(c) ==
    CASE c = "B" -> "b" [] c = "D" -> "d" [] c = "F" -> "f" [] c = "L" -> "l"
      [] OTHER -> c

RECURSIVE digit_run(_, _, _)
\* number of digits, at most `most`, starting at 1-based index i
digit_run(s, i, most) ==
    IF most = 0 \/ i > Len(s) \/ ~IsDigit(s[i]) THEN 0
    ELSE 1 + digit_run(s, i + 1, most - 1)

RECURSIVE digits_value(_, _, _, _)
digits_value(s, i, n, acc) ==
    IF n = 0 THEN acc ELSE digits_value(s, i + 1, n - 1, acc * 10 + DigitVal(s[i]))

RECURSIVE date_numbers(_, _)
\* DATE_NUMBER_RE.findall: -?\d{1,4}, leftmost, non-overlapping
date_numbers(s, i) ==
    IF i > Len(s) THEN <<>>
    ELSE IF s[i] = "-" /\ digit_run(s, i + 1, 4) > 0
         THEN LET n == digit_run(s, i + 1, 4)
              IN  <<0 - digits_value(s, i + 1, n, 0)>> \o date_numbers(s, i + 1 + n)
    ELSE IF IsDigit(s[i])
         THEN LET n == digit_run(s, i, 4)
              IN  <<digits_value(s, i, n, 0)>> \o date_numbers(s, i + n)
    ELSE date_numbers(s, i + 1)

\* returns <<date_not_before, date_not_after>>, each optional
parse_dates(raw) ==
    LET normalized == [i \in 1..Len(strip(raw)) |-> lower(strip(raw)[i])]
        numbers == date_numbers(raw, 1)
    IN  IF numbers = <<>> THEN <<NoneV, NoneV>>
        ELSE IF Len(numbers) >= 2 THEN <<Some(numbers[1]), Some(numbers[2])>>
        ELSE IF startswith(normalized, <<"d", ".">>) \/ startswith(normalized, <<"d", " ">>)
             THEN <<NoneV, Some(numbers[1])>>
        ELSE IF startswith(normalized, <<"b", ".">>) \/ startswith(normalized, <<"b", " ">>)
             THEN <<Some(numbers[1]), NoneV>>
        ELSE <<Some(numbers[1]), Some(numbers[1])>>

\* ---- flush_person: the evidence appended for one pending person, <<>> when
\* it is dropped.  p = [work_id, person, dates, function]: current_work_id
\* (0 for None), current_person (<<>> for None) and the DATES / FUNCTION
\* properties ("" when the property line is missing).
person_evidence(p) ==
    LET raw_dates == strip(p.dates)
        d == parse_dates(raw_dates)
    IN  [work_id |-> p.work_id, person_name |-> p.person, function |-> p.function,
         raw_dates |-> raw_dates, date_not_before |-> d[1], date_not_after |-> d[2]]

flush_person_keeps_undated(p) ==
    IF p.work_id = 0 \/ p.person = <<>> THEN <<>>
    ELSE IF strip(p.dates) = <<>> THEN <<>>
    ELSE <<person_evidence(p)>>

flush_person(p) ==
    IF p.work_id = 0 \/ p.person = <<>> THEN <<>>
    ELSE IF strip(p.dates) = <<>> THEN <<>>
    ELSE IF IsNone(person_evidence(p).date_not_before)
              /\ IsNone(person_evidence(p).date_not_after) THEN <<>>
    ELSE <<person_evidence(p)>>

\* ---- parse_year
parse_year(cell) ==
    IF cell.t # "int" THEN NoneV
    ELSE IF cell.v = 0 THEN NoneV
    ELSE Some(cell.v)

\* ---- load_cbdb_people, loop body: the CBDBPerson kept for one export row,
\* <<>> when the row is skipped
cbdb_row_person(row, author_names) ==
    LET name == strip(row.name)
        birth == parse_year(row.birth)
        death == parse_year(row.death)
        fl_earliest == parse_year(row.fl_earliest)
        fl_latest == parse_year(row.fl_latest)
    IN  IF name = <<>> \/ name \notin author_names THEN <<>>
        ELSE IF IsNone(birth) /\ IsNone(death) /\ IsNone(fl_earliest) /\ IsNone(fl_latest)
             THEN <<>>
        ELSE <<[person_id |-> row.person_id, name |-> name, birth_year |-> birth,
                death_year |-> death, fl_earliest |-> fl_earliest,
                fl_latest |-> fl_latest]>>

\* main lines 608-612
author_names_of(bs) ==
    {normalize_author_name(bs[i].author_label) : i \in 1..Len(bs)} \ {<<>>}

\* ---- load_dynasty_ranges
csv_crashes(rows) ==
    \E i \in 1..Len(rows) :
        /\ rows[i].label # "" /\ rows[i].start.t # "blank" /\ rows[i].end.t # "blank"
        /\ (rows[i].start.t = "bad" \/ rows[i].end.t = "bad")

RECURSIVE dynasty_rows(_, _)
dynasty_rows(rows, acc) ==
    IF rows = <<>> THEN acc
    ELSE LET row == Head(rows)
         IN  IF row.label = "" \/ row.start.t = "blank" \/ row.end.t = "blank"
             THEN dynasty_rows(Tail(rows), acc)
             ELSE dynasty_rows(Tail(rows),
                     [l \in DOMAIN acc \cup {row.label} |->
                        IF l = row.label THEN <<row.start.v, row.end.v>> ELSE acc[l]])

load_dynasty_ranges(csv) ==
    IF ~csv.given THEN DEFAULT_DYNASTY_RANGES ELSE dynasty_rows(csv.rows, <<>>)

\* ---- resolve_dynasty_range: <<date_not_before, date_not_after, note>>
resolve_dynasty_range(dynasty_label, rs) ==
    IF dynasty_label = "" THEN <<NoneV, NoneV, <<"missing dynasty label">> >>
    ELSE LET normalized == IF dynasty_label \in DOMAIN DYNASTY_ALIASES
                           THEN DYNASTY_ALIASES[dynasty_label] ELSE dynasty_label
         IN  IF normalized \notin DOMAIN rs
             THEN <<NoneV, NoneV, <<"unmapped dynasty label=", dynasty_label>> >>
             ELSE IF normalized # dynasty_label
                  THEN <<Some(rs[normalized][1]), Some(rs[normalized][2]),
                         <<"dynasty_label=", dynasty_label, "alias=", normalized>> >>
                  ELSE <<Some(rs[normalized][1]), Some(rs[normalized][2]),
                         <<"dynasty_label=", dynasty_label>> >>

\* ---- choose_best_evidence; <<>> stands for None
evidence_score(item) ==
    (IF ~IsNone(item.date_not_before) /\ ~IsNone(item.date_not_after) THEN 2
     ELSE IF ~IsNone(item.date_not_before) \/ ~IsNone(item.date_not_after) THEN 1
     ELSE 0)
    + (IF item.function \in PREFERRED_FUNCTIONS THEN 1 ELSE 0)

RECURSIVE best_from(_, _, _, _)
best_from(evidence, best, best_score, later_wins) ==
    IF evidence = <<>> THEN best
    ELSE LET item == Head(evidence)
             score == evidence_score(item)
         IN  IF score > best_score \/ (later_wins /\ score = best_score)
             THEN best_from(Tail(evidence), <<item>>, score, later_wins)
             ELSE best_from(Tail(evidence), best, best_score, later_wins)

choose_best_evidence_last(evidence) == best_from(evidence, <<>>, -1, TRUE)

choose_best_evidence(evidence) == best_from(evidence, <<>>, -1, FALSE)

\* ---- choose_cbdb_person; <<>> stands for None
choose_cbdb_person(candidates) ==
    IF candidates = <<>> THEN <<>>
    ELSE IF Len(candidates) = 1 THEN <<candidates[1]>>
    ELSE <<>>

\* ---- cbdb_date_range: <<date_not_before, date_not_after, date_type>>
cbdb_date_range(person) ==
    IF ~IsNone(person.birth_year) /\ ~IsNone(person.death_year)
    THEN <<person.birth_year, person.death_year, "author_lifespan_bound">>
    ELSE IF ~IsNone(person.fl_earliest) /\ ~IsNone(person.fl_latest)
    THEN <<person.fl_earliest, person.fl_latest, "floruit_bound">>
    ELSE <<NoneV, NoneV, "">>

\* ---- write_publication_date_ranges, loop body: the row written for a book
CsvCell(o) == IF IsNone(o) THEN Blank ELSE Y(o[1])

cbdb_row(book, people) ==
    LET author_name == normalize_author_name(book.author_label)
        cbdb_candidates == IF author_name \in DOMAIN people
                           THEN people[author_name] ELSE <<>>
        cbdb_person == IF author_name = <<>> THEN <<>>
                       ELSE choose_cbdb_person(cbdb_candidates)
    IN  IF cbdb_person = <<>> THEN <<>>
        ELSE LET r == cbdb_date_range(cbdb_person[1])
             IN  IF IsNone(r[1]) \/ IsNone(r[2]) THEN <<>>
                 ELSE <<[work_id |-> book.work_id, source |-> "cbdb",
                         date_not_before |-> CsvCell(r[1]),
                         date_not_after |-> CsvCell(r[2]),
                         date_type |-> r[3], confidence |-> "medium",
                         note |-> <<"name=", cbdb_person[1].name, "id=",
                                    cbdb_person[1].person_id>>,
                         ref |-> "CBDB_20240208_DATA2"]>>

kr_catalog_row(book, kr) ==
    LET evidence == IF book.work_id \in DOMAIN kr THEN kr[book.work_id] ELSE <<>>
        best == IF evidence # <<>> THEN choose_best_evidence(evidence) ELSE <<>>
    IN  IF best = <<>> THEN <<>>
        ELSE <<[work_id |-> book.work_id, source |-> "kr_catalog",
                date_not_before |-> CsvCell(best[1].date_not_before),
                date_not_after |-> CsvCell(best[1].date_not_after),
                date_type |-> "author_lifespan_bound",
                confidence |-> IF IsNone(best[1].date_not_before)
                                   \/ IsNone(best[1].date_not_after)
                               THEN "low" ELSE "medium",
                note |-> <<"person=", best[1].person_name, "function=",
                           best[1].function, "dates=", best[1].raw_dates>>,
                ref |-> "KR-Catalog"]>>

filename_dynasty_row(book, rs) ==
    LET r == resolve_dynasty_range(book.dynasty_label, rs)
    IN  [work_id |-> book.work_id, source |-> "filename_dynasty",
         date_not_before |-> CsvCell(r[1]), date_not_after |-> CsvCell(r[2]),
         date_type |-> "dynasty_bound", confidence |-> "low", note |-> r[3],
         ref |-> ""]

publication_row_catalog_first(book, rs, kr, people) ==
    IF kr_catalog_row(book, kr) # <<>> THEN kr_catalog_row(book, kr)[1]
    ELSE IF cbdb_row(book, people) # <<>> THEN cbdb_row(book, people)[1]
    ELSE filename_dynasty_row(book, rs)

publication_row(book, rs, kr, people) ==
    IF cbdb_row(book, people) # <<>> THEN cbdb_row(book, people)[1]
    ELSE IF kr_catalog_row(book, kr) # <<>> THEN kr_catalog_row(book, kr)[1]
    ELSE filename_dynasty_row(book, rs)

\* ------------------------------------------------ inputs (scan_books.py)
MaxRows == 2       \* rows of the biographical export
MaxPersons == 2    \* persons of the catalog handed to flush_person

NameA == <<"su", "shi">>
NameB == <<"li", "bai">>

AuthorLabels ==
    { <<>>, <<"yi", "ming">>, NameA, NameB,
      <<"fw(", "song", "fw)">> \o NameA \o <<" ">> }

ScanBook(w, d, a) == [work_id |-> w, dynasty_label |-> d, author_label |-> a]

\* the listing holds one or two books; the second is another work, or a
\* second file of the first work with a bare file name
SecondBooks == { <<>>, <<ScanBook(2, "Tang", NameB)>>, <<ScanBook(1, "", <<>>)>> }

ExportRow(n, id, b, d, fe, fl) ==
    [name |-> n, person_id |-> id, birth |-> b, death |-> d,
     fl_earliest |-> fe, fl_latest |-> fl]

RowKinds ==
    { ExportRow(NameA, 1, Y(1037), Y(1101), Blank, Blank),
      ExportRow(NameA, 2, Y(0), Y(0), Y(0), Y(0)),
      ExportRow(NameA, 3, Blank, Blank, Y(1060), Y(1090)),
      ExportRow(NameA, 4, Y(1009), Bad, Y(1030), Y(1066)),
      ExportRow(NameB \o <<" ">>, 5, Y(701), Y(762), Blank, Blank),
      ExportRow(NameA, 6, Y(1037), Blank, Blank, Y(1090)) }

RawDates ==
    { <<>>, <<"c", ".">>, <<"b", ".", " ", "1", "0", "0", "7">>,
      <<"d", ".", " ", "1", "0", "7", "2">>,
      <<"1", "0", "0", "7", "-", "1", "0", "7", "2">> }

\* FUNCTION "zhuan" (author) is in PREFERRED_FUNCTIONS, "xu" (preface) is not
PersonKinds ==
    [work_id : {1}, dates : RawDates, function : {"zhuan", "xu"}]
    \cup [work_id : {2}, dates : {<<"d", ".", " ", "1", "0", "7", "2">>},
          function : {"zhuan", "xu"}]
    \cup [work_id : {0}, dates : {<<"b", ".", " ", "1", "0", "0", "7">>},
          function : {"zhuan"}]

PersonName(i) ==
    CASE i = 1 -> <<"jia">> [] i = 2 -> <<"yi">> [] i = 3 -> <<"bing">>
      [] OTHER -> <<"ding">>

SeqsUpTo(S, n) == UNION {[1..k -> S] : k \in 0..n}

Persons(kinds) ==
    [i \in 1..Len(kinds) |->
        [work_id |-> kinds[i].work_id, person |-> PersonName(i),
         dates |-> kinds[i].dates, function |-> kinds[i].function]]

DynRow(l, a, b) == [label |-> l, start |-> a, end |-> b]
NoCsv == [given |-> FALSE, rows |-> <<>>]

DynastyCsvs ==
    { NoCsv,
      [given |-> TRUE,
       rows |-> <<DynRow("XiHan", Y(-202), Y(8)), DynRow("Tang", Y(618), Y(907)),
                  DynRow("", Y(1), Y(2)), DynRow("Sui", Y(581), Blank)>>],
      [given |-> TRUE,
       rows |-> <<DynRow("QianHan", Y(-202), Y(9)), DynRow("Tang", Y(0), Y(0))>>],
      [given |-> TRUE,
       rows |-> <<DynRow("Tang", Y(618), Bad)>>] }

DynastyLabels == {"", "QianHan", "XiHan", "Tang", "Foo"}

\* ------------------------------------------------- main of scan_books.py
\* the biographical cases
InputsBio ==
    /\ \E a \in AuthorLabels, second \in SecondBooks :
          sbooks = <<ScanBook(1, "XiHan", a)>> \o second
    /\ dynastyCsv = NoCsv
    /\ \E ks \in SeqsUpTo({k \in PersonKinds : k.work_id = 1 /\ k.function = "zhuan"
                              /\ k.dates = <<"b", ".", " ", "1", "0", "0", "7">>}, 1) :
          catalog = Persons(ks)
    /\ export \in SeqsUpTo(RowKinds, MaxRows)

\* the catalog cases
InputsCatalog ==
    /\ \E a \in {<<>>, NameA}, second \in SecondBooks :
          sbooks = <<ScanBook(1, "Foo", a)>> \o second
    /\ dynastyCsv = NoCsv
    /\ \E ks \in SeqsUpTo(PersonKinds, MaxPersons) : catalog = Persons(ks)
    /\ export \in SeqsUpTo({r \in RowKinds : r.person_id = 1}, 1)

\* the dynasty cases
InputsDynasty ==
    /\ \E l \in DynastyLabels, a \in {<<>>, NameA}, second \in SecondBooks :
          sbooks = <<ScanBook(1, l, a)>> \o second
    /\ dynastyCsv \in DynastyCsvs
    /\ \E ks \in SeqsUpTo({k \in PersonKinds : k.work_id = 1 /\ k.function = "xu"
                              /\ k.dates = <<"c", ".">>}, 1) :
          catalog = Persons(ks)
    /\ export \in SeqsUpTo({r \in RowKinds : r.person_id = 6}, 1)

QueryIdle ==
    /\ disk = {}
    /\ portion = <<>>
    /\ dateCsv = <<>>
    /\ args = [term |-> <<>>, s2t |-> <<>>, t2s |-> <<>>, limit |-> 1, dedup |-> TRUE]
    /\ pc = "idle"
    /\ books = <<>>
    /\ variants = <<>>
    /\ bi = 0
    /\ gen_remaining = 0
    /\ gen_pos = 0
    /\ results = <<>>

SInit ==
    /\ InputsBio \/ InputsCatalog \/ InputsDynasty
    /\ spc = "ranges"
    /\ ranges = <<>>
    /\ ci = 0
    /\ kr_evidence = <<>>
    /\ ei = 0
    /\ cbdb_people = <<>>
    /\ out_rows = <<>>
    /\ QueryIdle
    /\ LineIdle
    /\ CatalogIdle

\* main line 602
LoadRanges ==
    /\ spc = "ranges"
    /\ ~(dynastyCsv.given /\ csv_crashes(dynastyCsv.rows))
    /\ ranges' = load_dynasty_ranges(dynastyCsv)
    /\ spc' = "catalog"
    /\ UNCHANGED <<sbooks, dynastyCsv, catalog, export, ci, kr_evidence, ei,
                   cbdb_people, out_rows>>
    /\ UNCHANGED <<qvars, xvars>>

\* load_dynasty_ranges line 387: int() raises ValueError, main ends
RangesCrash ==
    /\ spc = "ranges"
    /\ dynastyCsv.given /\ csv_crashes(dynastyCsv.rows)
    /\ spc' = "crashed"
    /\ UNCHANGED <<sbooks, dynastyCsv, catalog, export, ranges, ci, kr_evidence,
                   ei, cbdb_people, out_rows>>
    /\ UNCHANGED <<qvars, xvars>>

\* _parse_kr_catalog_file: one call of flush_person with a pending person
FlushPerson ==
    /\ spc = "catalog"
    /\ ci < Len(catalog)
    /\ LET p == catalog[ci + 1]
           ev == flush_person(p)
           old == IF p.work_id \in DOMAIN kr_evidence
                  THEN kr_evidence[p.work_id] ELSE <<>>
       IN  kr_evidence' =
              IF ev = <<>> THEN kr_evidence
              ELSE [w \in DOMAIN kr_evidence \cup {p.work_id} |->
                      IF w = p.work_id THEN old \o ev ELSE kr_evidence[w]]
    /\ ci' = ci + 1
    /\ UNCHANGED <<sbooks, dynastyCsv, catalog, export, spc, ranges, ei,
                   cbdb_people, out_rows>>
    /\ UNCHANGED <<qvars, xvars>>

\* parse_kr_catalog returns
ParseEnd ==
    /\ spc = "catalog"
    /\ ci = Len(catalog)
    /\ spc' = "cbdb"
    /\ UNCHANGED <<sbooks, dynastyCsv, catalog, export, ranges, ci, kr_evidence,
                   ei, cbdb_people, out_rows>>
    /\ UNCHANGED <<qvars, xvars>>

\* load_cbdb_people lines 332-357: one row of the export
LoadCbdbRow ==
    /\ spc = "cbdb"
    /\ author_names_of(sbooks) # {}
    /\ ei < Len(export)
    /\ LET person == cbdb_row_person(export[ei + 1], author_names_of(sbooks))
           old == IF person # <<>> /\ person[1].name \in DOMAIN cbdb_people
                  THEN cbdb_people[person[1].name] ELSE <<>>
       IN  cbdb_people' =
              IF person = <<>> THEN cbdb_people
              ELSE [n \in DOMAIN cbdb_people \cup {person[1].name} |->
                      IF n = person[1].name THEN old \o person ELSE cbdb_people[n]]
    /\ ei' = ei + 1
    /\ UNCHANGED <<sbooks, dynastyCsv, catalog, export, spc, ranges, ci,
                   kr_evidence, out_rows>>
    /\ UNCHANGED <<qvars, xvars>>

\* load_cbdb_people returns (line 307 without author names, line 359)
CbdbEnd ==
    /\ spc = "cbdb"
    /\ author_names_of(sbooks) = {} \/ ei = Len(export)
    /\ spc' = "write"
    /\ UNCHANGED <<sbooks, dynastyCsv, catalog, export, ranges, ci, kr_evidence,
                   ei, cbdb_people, out_rows>>
    /\ UNCHANGED <<qvars, xvars>>

\* write_publication_date_ranges lines 496-562: the row of the next book
WriteRow ==
    /\ spc = "write"
    /\ Len(out_rows) < Len(sbooks)
    /\ out_rows' = Append(out_rows,
          publication_row(sbooks[Len(out_rows) + 1], ranges, kr_evidence, cbdb_people))
    /\ UNCHANGED <<sbooks, dynastyCsv, catalog, export, spc, ranges, ci,
                   kr_evidence, ei, cbdb_people>>
    /\ UNCHANGED <<qvars, xvars>>

WriteEnd ==
    /\ spc = "write"
    /\ Len(out_rows) = Len(sbooks)
    /\ spc' = "done"
    /\ UNCHANGED <<sbooks, dynastyCsv, catalog, export, ranges, ci, kr_evidence,
                   ei, cbdb_people, out_rows>>
    /\ UNCHANGED <<qvars, xvars>>

SNext ==
    \/ LoadRanges \/ RangesCrash \/ FlushPerson \/ ParseEnd
    \/ LoadCbdbRow \/ CbdbEnd \/ WriteRow \/ WriteEnd

\* ------------------------------------------- one call of cli.iter_line_matches
MaxLineLen == 4    \* characters of the scanned line

Lines == UNION {[1..n -> {"a", "b"}] : n \in 0..MaxLineLen}

\* variant lists: one or two different variants in either order, the empty
\* string among them
VariantPool == {<<>>, <<"a">>, <<"a", "a">>, <<"a", "b">>, <<"b", "a">>}
VariantLists ==
    {<<v>> : v \in VariantPool}
    \cup {p \in VariantPool \X VariantPool : p[1] # p[2]}

LInit ==
    /\ lm_line \in Lines
    /\ lm_variants \in VariantLists
    /\ lm_pc = "for"
    /\ lm_term = 0
    /\ lm_start = 0
    /\ lm_matches = <<>>
    /\ QueryIdle
    /\ ScanIdle
    /\ CatalogIdle

\* lines 124-126: the next variant is a non-empty term
ForTerm ==
    /\ lm_pc = "for"
    /\ lm_term < Len(lm_variants)
    /\ Len(lm_variants[lm_term + 1]) # 0
    /\ lm_term' = lm_term + 1
    /\ lm_start' = 0
    /\ lm_pc' = "while"
    /\ UNCHANGED <<lm_line, lm_variants, lm_matches>>
    /\ UNCHANGED <<qvars, svars, kvars>>

\* lines 124-128: an empty term is passed over
ForEmptyTerm ==
    /\ lm_pc = "for"
    /\ lm_term < Len(lm_variants)
    /\ Len(lm_variants[lm_term + 1]) = 0
    /\ lm_term' = lm_term + 1
    /\ lm_start' = 0
    /\ UNCHANGED <<lm_line, lm_variants, lm_pc, lm_matches>>
    /\ UNCHANGED <<qvars, svars, kvars>>

\* lines 130-134: find gives a hit
WhileHit ==
    /\ lm_pc = "while"
    /\ LET term == lm_variants[lm_term]
           idx == find(lm_line, term, lm_start)
       IN  /\ idx # -1
           /\ lm_matches' = Append(lm_matches, <<idx, term>>)
           /\ lm_start' = next_start(idx, Len(term))
    /\ UNCHANGED <<lm_line, lm_variants, lm_pc, lm_term>>
    /\ UNCHANGED <<qvars, svars, kvars>>

\* lines 130-132: find gives -1
WhileBreak ==
    /\ lm_pc = "while"
    /\ find(lm_line, lm_variants[lm_term], lm_start) = -1
    /\ lm_pc' = "for"
    /\ UNCHANGED <<lm_line, lm_variants, lm_term, lm_start, lm_matches>>
    /\ UNCHANGED <<qvars, svars, kvars>>

\* lines 135-136: sort by (offset, term) and return
SortReturn ==
    /\ lm_pc = "for"
    /\ lm_term = Len(lm_variants)
    /\ lm_matches' = SortedByKey([i \in 1..Len(lm_matches) |->
          <<(<<lm_matches[i][1]>> \o StrKey(lm_matches[i][2])), lm_matches[i]>>])
    /\ lm_pc' = "done"
    /\ UNCHANGED <<lm_line, lm_variants, lm_term, lm_start>>
    /\ UNCHANGED <<qvars, svars, kvars>>

LNext == ForTerm \/ ForEmptyTerm \/ WhileHit \/ WhileBreak \/ SortReturn

\* --------------------------- one call of scan_books._parse_kr_catalog_file
\* A line is given by the pattern it matches: "work" (WORK_RE, with the work
\* id), "people" (PEOPLE_SECTION_RE), "heading4" (HEADING4_RE and not the
\* people heading), "person" (PERSON_RE, with group 1), "prop" (PROPERTY_RE,
\* with key and value), "text" (none of them).  A property value is a
\* character sequence (DATES) or, where it is only looked up (FUNCTION),
\* one string in `label`.
MaxKrLines == 3    \* lines after the fixed opening of the file

WorkLine(w) == [kind |-> "work", id |-> w, name |-> <<>>, key |-> "", value |-> <<>>, label |-> ""]
PeopleLine == [kind |-> "people", id |-> 0, name |-> <<>>, key |-> "", value |-> <<>>, label |-> ""]
Heading4Line == [kind |-> "heading4", id |-> 0, name |-> <<>>, key |-> "", value |-> <<>>, label |-> ""]
PersonLine(n) == [kind |-> "person", id |-> 0, name |-> n, key |-> "", value |-> <<>>, label |-> ""]
PropLine(k, v, l) ==
    [kind |-> "prop", id |-> 0, name |-> <<>>, key |-> k, value |-> v, label |-> l]
TextLine == [kind |-> "text", id |-> 0, name |-> <<>>, key |-> "", value |-> <<>>, label |-> ""]

LineKinds ==
    { WorkLine(1), WorkLine(2), PeopleLine, Heading4Line,
      PersonLine(<<"jia", " ">>), PersonLine(<<" ">>),
      PropLine("DATES", <<"b", ".", " ", "1", "0", "0", "7">>, ""),
      PropLine("DATES", <<"c", ".">>, ""),
      PropLine("FUNCTION", <<>>, "zhuan"),
      TextLine }

\* how the file opens before the free lines
Openings ==
    { <<>>,
      <<WorkLine(1), PeopleLine>>,
      <<WorkLine(1), PeopleLine, PersonLine(<<"yi">>),
        PropLine("DATES", <<"d", ".", " ", "1", "0", "7", "2">>, "")>> }

\* DATES values of the one-person files
DateTexts ==
    { <<"1", "0", "0", "7">>, <<"f", "l", ".", " ", "1", "0", "5", "0">>,
      <<"b", ".", " ", "1", "0", "0", "7">>, <<"d", ".", " ", "1", "0", "7", "2">>,
      <<"D", " ", "9", "0">>, <<"1", "0", "0", "7", "-", "1", "0", "7", "2">>,
      <<"3", "-", "2", "5">>, <<"-", "5", "5", "1", " ", "-", "4", "7", "9">>,
      <<"c", ".">> }

KInit ==
    /\ \/ \E o \in Openings, free \in SeqsUpTo(LineKinds, MaxKrLines) :
             kr_lines = o \o free
       \/ \E v \in DateTexts, w \in {1, 2} :
             kr_lines = <<WorkLine(w), PeopleLine, PersonLine(<<"bing">>),
                          PropLine("DATES", v, "")>>
    /\ kr_pos = 0
    /\ kr_pc = "lines"
    /\ current_work_id = 0
    /\ in_people_section = FALSE
    /\ current_person = <<>>
    /\ current_props = NoProps
    /\ evidence_by_work = <<>>
    /\ QueryIdle
    /\ ScanIdle
    /\ LineIdle

\* flush_person with the properties of the previous person left in place
props_kept_after_flush(props) == props

\* flush_person lines 222, 227, 232, 247: current_props = {}
props_after_flush(props) == NoProps

\* flush_person lines 219-247: evidence_by_work after the call
flushed(ebw, work_id, person, props) ==
    LET ev == flush_person([work_id |-> work_id, person |-> person,
                            dates |-> props.DATES, function |-> props.FUNCTION])
        old == IF work_id \in DOMAIN ebw THEN ebw[work_id] ELSE <<>>
    IN  IF ev = <<>> THEN ebw
        ELSE [w \in DOMAIN ebw \cup {work_id} |->
                IF w = work_id THEN old \o ev ELSE ebw[w]]

\* lines 251-256: a work marker
KWork ==
    /\ kr_pc = "lines" /\ kr_pos < Len(kr_lines)
    /\ kr_lines[kr_pos + 1].kind = "work"
    /\ evidence_by_work' =
          flushed(evidence_by_work, current_work_id, current_person, current_props)
    /\ current_person' = <<>>
    /\ current_props' = props_after_flush(current_props)
    /\ current_work_id' = kr_lines[kr_pos + 1].id
    /\ in_people_section' = FALSE
    /\ kr_pos' = kr_pos + 1
    /\ UNCHANGED <<kr_lines, kr_pc>>
    /\ UNCHANGED <<qvars, svars, lvars>>

\* lines 258-261: the people-section heading
KPeople ==
    /\ kr_pc = "lines" /\ kr_pos < Len(kr_lines)
    /\ kr_lines[kr_pos + 1].kind = "people"
    /\ evidence_by_work' =
          flushed(evidence_by_work, current_work_id, current_person, current_props)
    /\ current_person' = <<>>
    /\ current_props' = props_after_flush(current_props)
    /\ in_people_section' = TRUE
    /\ kr_pos' = kr_pos + 1
    /\ UNCHANGED <<kr_lines, kr_pc, current_work_id>>
    /\ UNCHANGED <<qvars, svars, lvars>>

\* lines 263-267: another level-4 heading
KHeading4 ==
    /\ kr_pc = "lines" /\ kr_pos < Len(kr_lines)
    /\ kr_lines[kr_pos + 1].kind = "heading4"
    /\ IF in_people_section
       THEN /\ evidence_by_work' = flushed(evidence_by_work, current_work_id,
                                           current_person, current_props)
            /\ current_person' = <<>>
            /\ current_props' = props_after_flush(current_props)
       ELSE UNCHANGED <<evidence_by_work, current_person, current_props>>
    /\ in_people_section' = FALSE
    /\ kr_pos' = kr_pos + 1
    /\ UNCHANGED <<kr_lines, kr_pc, current_work_id>>
    /\ UNCHANGED <<qvars, svars, lvars>>

\* lines 269-274: a person heading inside the people section
KPerson ==
    /\ kr_pc = "lines" /\ kr_pos < Len(kr_lines)
    /\ kr_lines[kr_pos + 1].kind = "person"
    /\ in_people_section
    /\ evidence_by_work' =
          flushed(evidence_by_work, current_work_id, current_person, current_props)
    /\ current_props' = props_after_flush(current_props)
    /\ current_person' = strip(kr_lines[kr_pos + 1].name)
    /\ kr_pos' = kr_pos + 1
    /\ UNCHANGED <<kr_lines, kr_pc, current_work_id, in_people_section>>
    /\ UNCHANGED <<qvars, svars, lvars>>

\* lines 276-279: a property line of the pending person
KProperty ==
    /\ kr_pc = "lines" /\ kr_pos < Len(kr_lines)
    /\ kr_lines[kr_pos + 1].kind = "prop"
    /\ in_people_section
    /\ current_person # <<>>
    /\ current_props' =
          IF kr_lines[kr_pos + 1].key = "DATES"
          THEN [current_props EXCEPT !.DATES = strip(kr_lines[kr_pos + 1].value)]
          ELSE IF kr_lines[kr_pos + 1].key = "FUNCTION"
          THEN [current_props EXCEPT !.FUNCTION = kr_lines[kr_pos + 1].label]
          ELSE current_props
    /\ kr_pos' = kr_pos + 1
    /\ UNCHANGED <<kr_lines, kr_pc, current_work_id, in_people_section,
                   current_person, evidence_by_work>>
    /\ UNCHANGED <<qvars, svars, lvars>>

\* lines 249-279: a line no branch acts on (plain text, a person or property
\* line outside the people section, a property line without a person)
KOther ==
    /\ kr_pc = "lines" /\ kr_pos < Len(kr_lines)
    /\ \/ kr_lines[kr_pos + 1].kind = "text"
       \/ kr_lines[kr_pos + 1].kind \in {"person", "prop"} /\ ~in_people_section
       \/ kr_lines[kr_pos + 1].kind = "prop" /\ in_people_section
            /\ current_person = <<>>
    /\ kr_pos' = kr_pos + 1
    /\ UNCHANGED <<kr_lines, kr_pc, current_work_id, in_people_section,
                   current_person, current_props, evidence_by_work>>
    /\ UNCHANGED <<qvars, svars, lvars>>

\* line 281: the flush at the end of the file
KEndOfFile ==
    /\ kr_pc = "lines" /\ kr_pos = Len(kr_lines)
    /\ evidence_by_work' =
          flushed(evidence_by_work, current_work_id, current_person, current_props)
    /\ current_person' = <<>>
    /\ current_props' = props_after_flush(current_props)
    /\ kr_pc' = "done"
    /\ UNCHANGED <<kr_lines, kr_pos, current_work_id, in_people_section>>
    /\ UNCHANGED <<qvars, svars, lvars>>

KNext ==
    \/ KWork \/ KPeople \/ KHeading4 \/ KPerson \/ KProperty \/ KOther
    \/ KEndOfFile

\* ------------------------------------------------------- specifications
vars == <<qvars, svars, lvars, kvars>>
Init == QInit
Next == QNext
Spec == Init /\ [][Next]_vars
SpecScan == SInit /\ [][SNext]_vars
SpecLine == LInit /\ [][LNext]_vars
SpecCatalog == KInit /\ [][KNext]_vars

\* ------------------------------------------------- properties of the query
BookSet == {books[i] : i \in 1..Len(books)}
HitsOf(b) == Len(book_matches(b, portion, variants))
InResults(b) == \E i \in 1..Len(results) : results[i].book = b
Known(b) == ~IsNone(b.date_not_before) /\ ~IsNone(b.date_not_after)
DateOf(b) == <<b.date_not_before[1], b.date_not_after[1]>>
DateKeyOf(b) == SubSeq(book_sort_key(b), 1, 2)

\* C1: the result list never holds more than `limit` matches, after every
\* appended match and at the end.
C1_GlobalCap == Len(results) <= args.limit

\* a run without dedup that the cap cut short inside a book
C1_Witness ==
    /\ pc = "done"
    /\ ~args.dedup
    /\ Len(results) = args.limit
    /\ \E b \in BookSet :
          /\ InResults(b)
          /\ Cardinality({i \in 1..Len(results) : results[i].book = b}) < HitsOf(b)
          /\ Cardinality({i \in 1..Len(results) : results[i].book = b}) < args.limit

\* C2: with dedup enabled no two matches of the result list share a work
\* identifier.
C2_DedupByWorkId ==
    args.dedup =>
        \A i, j \in 1..Len(results) :
            i # j => results[i].book.work_id # results[j].book.work_id

\* C3: with dedup enabled the final number of results is min(limit, number
\* of distinct works of the loaded catalog whose text holds an occurrence of
\* some variant).
C3_DedupCount ==
    (pc = "done" /\ args.dedup) =>
        Len(results) =
            Min(args.limit,
                Cardinality({b.work_id : b \in {x \in BookSet : HitsOf(x) > 0}}))

\* the end-to-end scenario: three listed books dated [-200,-150], [100,200]
\* and unknown, each holding the term, queried with limit 2 and dedup
C4_Scenario ==
    /\ args.limit = 2
    /\ args.dedup
    /\ Cardinality(BookSet) = 3
    /\ \A b \in BookSet : HitsOf(b) > 0
    /\ \E a, b, c \in BookSet :
          /\ Known(a) /\ DateOf(a) = <<-200, -150>>
          /\ Known(b) /\ DateOf(b) = <<100, 200>>
          /\ ~Known(c)

\* C4: results come in non-decreasing book_sort_key order; a book holding a
\* match is in the results whenever a book sorting after it is; and in the
\* scenario the [-200,-150] work is returned first, the [100,200] work
\* second, and the unknown-dated work is left out.
C4_EarliestFirst ==
    /\ \A i \in 1..(Len(results) - 1) :
          ~LexLess(book_sort_key(results[i + 1].book),
                   book_sort_key(results[i].book))
    /\ \A a, b \in BookSet :
          (/\ LexLess(book_sort_key(a), book_sort_key(b))
           /\ InResults(b)
           /\ HitsOf(a) > 0) => InResults(a)
    /\ (pc = "done" /\ C4_Scenario) =>
          /\ Len(results) = 2
          /\ Known(results[1].book) /\ DateOf(results[1].book) = <<-200, -150>>
          /\ Known(results[2].book) /\ DateOf(results[2].book) = <<100, 200>>

C4_Witness == pc = "done" /\ C4_Scenario /\ Len(results) = 2

\* C5: among intervals with both bounds known the sort order is the
\* lexicographic order of (not_before, not_after), and a fully unknown
\* interval sorts strictly after every known one, whatever its magnitude.
C5_UnknownLast ==
    \A a, b \in BookSet :
        /\ (Known(a) /\ Known(b)) =>
              (LexLess(DateKeyOf(a), DateKeyOf(b)) <=> LexLess(DateOf(a), DateOf(b)))
        /\ (Known(a) /\ ~Known(b)) => LexLess(DateKeyOf(a), DateKeyOf(b))

\* the result list of a whole query loop over a sorted book list: each book
\* gives its first matches up to the per-book limit, until the budget is used
RECURSIVE query_results(_, _, _, _, _, _)
query_results(bks, fs, vs, limit, dedup, acc) ==
    IF bks = <<>> \/ limit - Len(acc) <= 0 THEN acc
    ELSE LET ms == book_matches(Head(bks), fs, vs)
             n  == Min(per_book_limit(dedup, limit - Len(acc)), Len(ms))
         IN  query_results(Tail(bks), fs, vs, limit, dedup,
                           acc \o SubSeq(ms, 1, n))

\* the cataloged books whose corpus file is there and can be read
Readable(b) == portion[b.rel_path].exists /\ portion[b.rel_path].readable

\* C11: a cataloged work whose corpus file is missing or unreadable raises
\* no error and contributes no match; the finished result list is the one
\* the query gives with that work removed from the catalog.
C11_MissingFileSkipped ==
    /\ pc # "crashed"
    /\ pc = "done" =>
          results = query_results(SelectSeq(books, Readable), portion, variants,
                                  args.limit, args.dedup, <<>>)

\* ------------------------------------- properties of iter_line_matches
MatchAt(h, t) ==
    /\ h >= 0 /\ h + Len(t) <= Len(lm_line)
    /\ \A k \in 1..Len(t) : lm_line[h + k] = t[k]

\* the offsets at which the returned list reports variant t
OffsetsOf(t) ==
    {lm_matches[i][1] : i \in {j \in 1..Len(lm_matches) : lm_matches[j][2] = t}}

\* H is the left-to-right scan of t without overlap: every member is an
\* occurrence, two members are at least Len(t) apart, and an occurrence left
\* out starts inside a reported one that begins before it
ScanWithoutOverlap(H, t) ==
    /\ \A h \in H : MatchAt(h, t)
    /\ \A h1, h2 \in H : h1 < h2 => h1 + Len(t) <= h2
    /\ \A q \in 0..Len(lm_line) :
          (MatchAt(q, t) /\ q \notin H) => \E h \in H : h < q /\ q < h + Len(t)

\* C13: the returned list holds, once each, exactly the occurrences of every
\* non-empty variant found left to right without overlap within the variant
\* (occurrences of different variants may overlap), ordered by offset and
\* then by variant string.
C13_LineMatches ==
    lm_pc = "done" =>
        /\ \A i \in 1..Len(lm_matches) :
              \E k \in 1..Len(lm_variants) :
                  lm_variants[k] # <<>> /\ lm_matches[i][2] = lm_variants[k]
        /\ \A k \in 1..Len(lm_variants) :
              lm_variants[k] # <<>> =>
                  ScanWithoutOverlap(OffsetsOf(lm_variants[k]), lm_variants[k])
        /\ \A i, j \in 1..Len(lm_matches) : i # j => lm_matches[i] # lm_matches[j]
        /\ \A i \in 1..(Len(lm_matches) - 1) :
              \/ lm_matches[i][1] < lm_matches[i + 1][1]
              \/ /\ lm_matches[i][1] = lm_matches[i + 1][1]
                 /\ LexLess(StrKey(lm_matches[i][2]), StrKey(lm_matches[i + 1][2]))
        /\ lm_matches = iter_line_matches(lm_line, lm_variants)

\* a returned list with a skipped overlapping occurrence of one variant, two
\* overlapping occurrences of different variants, and a tie on the offset
C13_Witness ==
    /\ lm_pc = "done"
    /\ \E t \in {lm_variants[k] : k \in 1..Len(lm_variants)} :
          \E q \in 0..Len(lm_line) : MatchAt(q, t) /\ q \notin OffsetsOf(t)
    /\ \E i, j \in 1..Len(lm_matches) :
          /\ lm_matches[i][2] # lm_matches[j][2]
          /\ lm_matches[i][1] < lm_matches[j][1]
          /\ lm_matches[j][1] < lm_matches[i][1] + Len(lm_matches[i][2])
    /\ \E i \in 1..(Len(lm_matches) - 1) : lm_matches[i][1] = lm_matches[i + 1][1]

\* --------------------------------------- properties of the scan-building
EvidenceOf(w) == IF w \in DOMAIN kr_evidence THEN kr_evidence[w] ELSE <<>>
Written == 1..Len(out_rows)
Both(a, b) == ~IsNone(a) /\ ~IsNone(b)

\* the one biographical person the listing's author name leads to, with a
\* full lifespan or a full floruit
UsablePerson(book) ==
    LET name == normalize_author_name(book.author_label)
    IN  /\ name # <<>>
        /\ name \in DOMAIN cbdb_people
        /\ Len(cbdb_people[name]) = 1
        /\ \/ Both(cbdb_people[name][1].birth_year, cbdb_people[name][1].death_year)
           \/ Both(cbdb_people[name][1].fl_earliest, cbdb_people[name][1].fl_latest)

\* C6: one row per listed book, in order; its source is cbdb iff the author
\* name has a usable biographical person, else kr_catalog iff the work has
\* catalog evidence, else filename_dynasty; and both bounds of the row come
\* from one record of that source (lifespan before floruit for cbdb).
C6_Cascade ==
    /\ Len(out_rows) <= Len(sbooks)
    /\ spc = "done" => Len(out_rows) = Len(sbooks)
    /\ \A i \in Written :
          LET b == sbooks[i]
              r == out_rows[i]
              ev == EvidenceOf(b.work_id)
              p == cbdb_people[normalize_author_name(b.author_label)][1]
          IN  /\ r.work_id = b.work_id
              /\ r.source = "cbdb" <=> UsablePerson(b)
              /\ r.source = "kr_catalog" <=> (~UsablePerson(b) /\ ev # <<>>)
              /\ r.source = "filename_dynasty" <=> (~UsablePerson(b) /\ ev = <<>>)
              /\ r.source = "cbdb" =>
                    IF Both(p.birth_year, p.death_year)
                    THEN /\ r.date_not_before = Y(p.birth_year[1])
                         /\ r.date_not_after = Y(p.death_year[1])
                    ELSE /\ r.date_not_before = Y(p.fl_earliest[1])
                         /\ r.date_not_after = Y(p.fl_latest[1])
              /\ r.source = "kr_catalog" =>
                    \E k \in 1..Len(ev) :
                        /\ r.date_not_before = CsvCell(ev[k].date_not_before)
                        /\ r.date_not_after = CsvCell(ev[k].date_not_after)
              /\ r.source = "filename_dynasty" =>
                    \/ r.date_not_before = Blank /\ r.date_not_after = Blank
                    \/ \E l \in DOMAIN ranges :
                          /\ r.date_not_before = Y(ranges[l][1])
                          /\ r.date_not_after = Y(ranges[l][2])

\* a floruit taken from the biographical source although the work has
\* catalog evidence, next to a book that fell through to the dynasty label
C6_Witness ==
    /\ spc = "done"
    /\ Len(out_rows) = 2
    /\ out_rows[1].source = "cbdb" /\ out_rows[1].date_type = "floruit_bound"
    /\ EvidenceOf(sbooks[1].work_id) # <<>>
    /\ out_rows[2].source = "filename_dynasty"

\* rows of the biographical export that carry a name
ExportRowsNamed(name) == {k \in 1..Len(export) : strip(export[k].name) = name}

\* C7: counting all rows of the biographical export that share the work's
\* normalized author name, 0 rows or 2 and more rows never give source cbdb,
\* and exactly 1 row with a full lifespan or floruit is the one used.
C7_AbstainOnSharedName ==
    \A i \in Written :
        LET name == normalize_author_name(sbooks[i].author_label)
            named == ExportRowsNamed(name)
        IN  /\ Cardinality(named) # 1 => out_rows[i].source # "cbdb"
            /\ (name # <<>> /\ Cardinality(named) = 1) =>
                  \A k \in named :
                     (\/ Both(parse_year(export[k].birth), parse_year(export[k].death))
                      \/ Both(parse_year(export[k].fl_earliest),
                              parse_year(export[k].fl_latest)))
                     => /\ out_rows[i].source = "cbdb"
                        /\ out_rows[i].note[4] = export[k].person_id

\* catalog persons of a work whose DATES give at least one bound
DatedPersons(w) ==
    {k \in 1..Len(catalog) :
        /\ catalog[k].work_id = w /\ w # 0
        /\ parse_dates(strip(catalog[k].dates)) # <<NoneV, NoneV>>}

\* C8: a row with source kr_catalog carries at least one bound, and a work
\* none of whose catalog persons yields a bound is never given kr_catalog.
C8_CatalogBound ==
    \A i \in Written :
        /\ out_rows[i].source = "kr_catalog" =>
              (out_rows[i].date_not_before # Blank \/ out_rows[i].date_not_after # Blank)
        /\ DatedPersons(sbooks[i].work_id) = {} => out_rows[i].source # "kr_catalog"

\* a work whose only catalog person has DATES text without a year falls to
\* the dynasty label
C8_Witness ==
    /\ spc = "done"
    /\ out_rows[1].source = "filename_dynasty"
    /\ \E k \in 1..Len(catalog) :
          /\ catalog[k].work_id = sbooks[1].work_id
          /\ strip(catalog[k].dates) # <<>>
          /\ parse_dates(strip(catalog[k].dates)) = <<NoneV, NoneV>>

\* the score as the claim states it
ClaimScore(e) ==
    (CASE Both(e.date_not_before, e.date_not_after) -> 2
       [] IsNone(e.date_not_before) /\ IsNone(e.date_not_after) -> 0
       [] OTHER -> 1)
    + (IF e.function \in PREFERRED_FUNCTIONS THEN 1 ELSE 0)

\* C9: the evidence a kr_catalog row is written from is the first record, in
\* list order, that attains the maximum score.
C9_FirstBest ==
    \A i \in Written :
        out_rows[i].source = "kr_catalog" =>
            LET ev == EvidenceOf(sbooks[i].work_id)
            IN  \E k \in 1..Len(ev) :
                   /\ out_rows[i].note =
                         <<"person=", ev[k].person_name, "function=", ev[k].function,
                           "dates=", ev[k].raw_dates>>
                   /\ \A j \in 1..Len(ev) : ClaimScore(ev[j]) <= ClaimScore(ev[k])
                   /\ \A j \in 1..(k - 1) : ClaimScore(ev[j]) < ClaimScore(ev[k])

\* a row written from the first of two records of equal score
C9_Witness ==
    /\ spc = "done"
    /\ out_rows[1].source = "kr_catalog"
    /\ Len(EvidenceOf(sbooks[1].work_id)) = 2
    /\ ClaimScore(EvidenceOf(sbooks[1].work_id)[1])
          = ClaimScore(EvidenceOf(sbooks[1].work_id)[2])
    /\ out_rows[1].note[2] = EvidenceOf(sbooks[1].work_id)[1].person_name

\* C10: in a filename_dynasty row a missing label, or one mapped neither
\* directly nor through the alias table, gives blank bounds and a note; a
\* label mapped directly or through an alias gives the table's interval; and
\* QianHan gives XiHan's interval with a note naming both labels.
C10_DynastyFallback ==
    \A i \in Written :
        out_rows[i].source = "filename_dynasty" =>
            LET l == sbooks[i].dynasty_label
                r == out_rows[i]
                direct == l \in DOMAIN ranges
                aliased == l \in DOMAIN DYNASTY_ALIASES
                              /\ DYNASTY_ALIASES[l] \in DOMAIN ranges
            IN  /\ (l = "" \/ (~direct /\ ~aliased)) =>
                      /\ r.date_not_before = Blank /\ r.date_not_after = Blank
                      /\ r.note # <<>>
                /\ (l # "" /\ (direct \/ aliased)) =>
                      \/ /\ direct
                         /\ r.date_not_before = Y(ranges[l][1])
                         /\ r.date_not_after = Y(ranges[l][2])
                      \/ /\ aliased
                         /\ r.date_not_before = Y(ranges[DYNASTY_ALIASES[l]][1])
                         /\ r.date_not_after = Y(ranges[DYNASTY_ALIASES[l]][2])
                /\ (l = "QianHan" /\ "XiHan" \in DOMAIN ranges) =>
                      /\ r.date_not_before = Y(ranges["XiHan"][1])
                      /\ r.date_not_after = Y(ranges["XiHan"][2])
                      /\ r.note = <<"dynasty_label=", "QianHan", "alias=", "XiHan">>

\* the export rows a kept biographical person was read from
ExportRowsOf(person) ==
    {i \in 1..ei : /\ export[i].person_id = person.person_id
                   /\ strip(export[i].name) = person.name}

\* C12: malformed year text is never fatal and only drops the value: the
\* scan-building run never ends on an exception, a dynasty table with a
\* non-integer year is loaded without the bad row, and a biographical person
\* read from a row with a non-integer year has that year absent.
C12_MalformedYearNotFatal ==
    /\ spc # "crashed"
    /\ (dynastyCsv.given /\ spc \notin {"ranges", "idle"}) =>
          \A l \in DOMAIN ranges :
              \E i \in 1..Len(dynastyCsv.rows) :
                  /\ dynastyCsv.rows[i].label = l
                  /\ dynastyCsv.rows[i].start.t = "int"
                  /\ dynastyCsv.rows[i].end.t = "int"
    /\ \A n \in DOMAIN cbdb_people :
          \A k \in 1..Len(cbdb_people[n]) :
              \A i \in ExportRowsOf(cbdb_people[n][k]) :
                  /\ export[i].birth.t = "bad" => IsNone(cbdb_people[n][k].birth_year)
                  /\ export[i].death.t = "bad" => IsNone(cbdb_people[n][k].death_year)
                  /\ export[i].fl_earliest.t = "bad" =>
                        IsNone(cbdb_people[n][k].fl_earliest)
                  /\ export[i].fl_latest.t = "bad" =>
                        IsNone(cbdb_people[n][k].fl_latest)

\* --------------------------------------- properties of the catalog parser
\* read off the whole file, without the parser's state
Boundary(i) == kr_lines[i].kind \in {"work", "people", "heading4"}

\* line i lies inside a people section
InPeopleSection(i) ==
    \E j \in 1..(i - 1) :
        /\ kr_lines[j].kind = "people"
        /\ \A k \in (j + 1)..(i - 1) : ~Boundary(k)

\* the work of the most recent work marker before line i, 0 without one
WorkBefore(i) ==
    LET ws == {j \in 1..(i - 1) : kr_lines[j].kind = "work"}
    IN  IF ws = {} THEN 0
        ELSE kr_lines[CHOOSE j \in ws : \A k \in ws : k <= j].id

\* the line that ends the record begun at line i (Len + 1: end of file)
RecordEnd(i) ==
    LET es == {j \in (i + 1)..Len(kr_lines) :
                  Boundary(j) \/ kr_lines[j].kind = "person"}
    IN  IF es = {} THEN Len(kr_lines) + 1
        ELSE CHOOSE j \in es : \A k \in es : j <= k

\* the last property line with this key inside the record of line i, 0 if none
LastProp(i, key) ==
    LET ps == {j \in (i + 1)..(RecordEnd(i) - 1) :
                  kr_lines[j].kind = "prop" /\ kr_lines[j].key = key}
    IN  IF ps = {} THEN 0 ELSE CHOOSE j \in ps : \A k \in ps : k <= j

RecordDates(i) ==
    IF LastProp(i, "DATES") = 0 THEN <<>>
    ELSE strip(kr_lines[LastProp(i, "DATES")].value)

RecordFunction(i) ==
    IF LastProp(i, "FUNCTION") = 0 THEN ""
    ELSE kr_lines[LastProp(i, "FUNCTION")].label

\* person headings that name a person, inside a people section, after a work
\* marker, whose DATES property yields at least one bound
DatedHeadings ==
    {i \in 1..Len(kr_lines) :
        /\ kr_lines[i].kind = "person"
        /\ strip(kr_lines[i].name) # <<>>
        /\ InPeopleSection(i)
        /\ WorkBefore(i) # 0
        /\ parse_dates(RecordDates(i)) # <<NoneV, NoneV>>}

RecordEvidence(i) ==
    [work_id |-> WorkBefore(i), person_name |-> strip(kr_lines[i].name),
     function |-> RecordFunction(i), raw_dates |-> RecordDates(i),
     date_not_before |-> parse_dates(RecordDates(i))[1],
     date_not_after |-> parse_dates(RecordDates(i))[2]]

RECURSIVE ExpectedEvidence(_, _)
\* the records of work w owed by the headings from line i on, in file order
ExpectedEvidence(w, i) ==
    IF i > Len(kr_lines) THEN <<>>
    ELSE (IF i \in DatedHeadings /\ WorkBefore(i) = w
          THEN <<RecordEvidence(i)>> ELSE <<>>) \o ExpectedEvidence(w, i + 1)

ParsedEvidence(w) ==
    IF w \in DOMAIN evidence_by_work THEN evidence_by_work[w] ELSE <<>>

\* C14: the pending person is flushed on every exit, so no person is pending
\* outside a people section, and at the end of the file every dated person
\* heading inside a people section has given exactly one PersonEvidence, filed
\* under the work of the latest work marker before it and built from the
\* property lines of its own record; nothing else has given evidence.
C14_FlushOnEveryExit ==
    /\ (kr_pc = "lines" /\ ~in_people_section) => current_person = <<>>
    /\ kr_pc = "done" =>
          /\ current_person = <<>> /\ current_props = NoProps
          /\ \A w \in DOMAIN evidence_by_work : w \in {1, 2}
          /\ \A w \in {1, 2} : ParsedEvidence(w) = ExpectedEvidence(w, 1)

\* a finished file with two records filed under work 1, the second one ended
\* by the marker of work 2
C14_Witness ==
    /\ kr_pc = "done"
    /\ current_work_id = 2
    /\ Len(ParsedEvidence(1)) = 2
    /\ ParsedEvidence(1)[1].person_name # ParsedEvidence(1)[2].person_name

\* ------------------------------------------------ properties of parse_dates
\* a non-negative year written in digits, and its value
IsYearText(s) == s # <<>> /\ \A i \in 1..Len(s) : IsDigit(s[i])
YearValue(s) == digits_value(s, 1, Len(s), 0)

\* the text after a two-character prefix such as "b." and the blanks after it
AfterPrefix(s) == lstrip(SubSeq(s, 3, Len(s)))
HasPrefix(s, c) == startswith(s, <<c, ".">>) /\ IsYearText(AfterPrefix(s))
IsFloruit(s) ==
    startswith(s, <<"f", "l", ".">>) /\ IsYearText(lstrip(SubSeq(s, 4, Len(s))))

\* "A-B": two non-negative years joined by a hyphen
HyphenAt(s) ==
    {k \in 2..(Len(s) - 1) :
        /\ s[k] = "-"
        /\ IsYearText(SubSeq(s, 1, k - 1))
        /\ IsYearText(SubSeq(s, k + 1, Len(s)))}

\* the bounds the forms of raw date text stand for; <<>> for any other text
DatesMeant(s) ==
    IF HyphenAt(s) # {}
    THEN LET k == CHOOSE k \in HyphenAt(s) : TRUE
         IN  << <<Some(YearValue(SubSeq(s, 1, k - 1))),
                  Some(YearValue(SubSeq(s, k + 1, Len(s))))>> >>
    ELSE IF IsYearText(s) THEN << <<Some(YearValue(s)), Some(YearValue(s))>> >>
    ELSE IF IsFloruit(s)
    THEN LET v == YearValue(lstrip(SubSeq(s, 4, Len(s))))
         IN  << <<Some(v), Some(v)>> >>
    ELSE IF HasPrefix(s, "b") THEN << <<Some(YearValue(AfterPrefix(s))), NoneV>> >>
    ELSE IF HasPrefix(s, "d") THEN << <<NoneV, Some(YearValue(AfterPrefix(s)))>> >>
    ELSE <<>>

AllParsedEvidence ==
    UNION {{evidence_by_work[w][k] : k \in 1..Len(evidence_by_work[w])} :
              w \in DOMAIN evidence_by_work}

\* C15: for DATES text "A-B" of two non-negative years the evidence carries
\* (A, B), so its not_after is the non-negative year B; a bare year or a
\* "fl." year V gives (V, V), "b." V gives (V, absent), "d." V gives
\* (absent, V).
C15_ParseDates ==
    \A e \in AllParsedEvidence :
        DatesMeant(e.raw_dates) # <<>> =>
            <<e.date_not_before, e.date_not_after>> = DatesMeant(e.raw_dates)[1]
====
